---- MODULE Spec2Model ----
(***************************************************************************)
(* A model of ggrc.models.custom_attribute_value.CustomAttributeValue:     *)
(* the in-memory value object (its columns, its dynamically named          *)
(* relationships, validate()) and the custom_attribute_values table        *)
(* (inserts under the unique constraint, _clone(), mk_filter_by_custom()). *)
(*                                                                         *)
(* Python strings on which the code does character work (split, "in",      *)
(* startswith, slicing) are sequences of one-character strings.  A column  *)
(* that may hold None is a tagged record, so that None, an integer and a   *)
(* string stay distinct values.                                            *)
(***************************************************************************)
EXTENDS Integers, Sequences, FiniteSets, TLC

VARIABLES cav, last, stored, call

vars == <<cav, last, stored, call>>

---------------------------------------------------------------------------
(* Bounds of the model. *)

\* Longest attribute_value / multi_choice_options string that is enumerated.
MaxLen == 3

\* Most rows the custom_attribute_values table holds.
MaxStored == 2

---------------------------------------------------------------------------
(* Python values. *)

\* The characters strings are built from: a letter, the option separator of
\* _validate_dropdown and the separator of _validate_map_person.
Alphabet == {"a", ",", ":"}

RECURSIVE StringsOfLen(_)
StringsOfLen(n) ==
  IF n = 0 THEN {<<>>}
  ELSE {Append(s, c) : s \in StringsOfLen(n - 1), c \in Alphabet}

RECURSIVE StringsUpTo(_)
StringsUpTo(n) == IF n = 0 THEN {<<>>} ELSE StringsOfLen(n) \cup StringsUpTo(n - 1)

\* An optional string: Python None or a str.
NoneStr == [isNone |-> TRUE, str |-> <<>>]
Some(s) == [isNone |-> FALSE, str |-> s]

\* Python truthiness of an optional string: None and "" are falsy.
Truthy(v) == ~v.isNone /\ v.str # <<>>

\* An optional id: None, an int, or (after line 192) a str.
NoneId == [kind |-> "none", n |-> 0, s |-> <<>>]
IntId(i) == [kind |-> "int", n |-> i, s |-> <<>>]
StrId(t) == [kind |-> "str", n |-> 0, s |-> t]

\* A model instance (a row of some model class), or None.
NoneObj == [cls |-> "NoneType", id |-> 0]
Obj(c, i) == [cls |-> c, id |-> i]

\* '{0}'.format(v) of an optional string.
Format(v) == IF v.isNone THEN <<"N", "o", "n", "e">> ELSE v.str

\* sep in s
Contains(s, sep) == \E i \in 1..Len(s) : s[i] = sep

\* s.split(sep) for a one-character sep: the pieces between the separators,
\* always at least one piece.
RECURSIVE Split(_, _)
Split(s, sep) ==
  IF ~Contains(s, sep) THEN <<s>>
  ELSE LET i == CHOOSE k \in 1..Len(s) :
                  s[k] = sep /\ \A j \in 1..(k - 1) : s[j] # sep
       IN <<SubSeq(s, 1, i - 1)>> \o Split(SubSeq(s, i + 1, Len(s)), sep)

\* s.startswith(p)
StartsWith(s, p) == Len(s) >= Len(p) /\ SubSeq(s, 1, Len(p)) = p

\* x in lst, for a Python list lst
InList(x, lst) == \E i \in 1..Len(lst) : lst[i] = x

---------------------------------------------------------------------------
(* String constants of the source and of the specification's examples. *)

sMapPrefix == <<"M", "a", "p", ":">>
sPerson == <<"P", "e", "r", "s", "o", "n">>
sControl == <<"C", "o", "n", "t", "r", "o", "l">>
sGhost == <<"G", "h", "o", "s", "t">>
sDropdown == <<"D", "r", "o", "p", "d", "o", "w", "n">>
sText == <<"T", "e", "x", "t">>
sMapPerson == sMapPrefix \o sPerson
sMapControl == sMapPrefix \o sControl
sMapGhost == sMapPrefix \o sGhost
s42 == <<"4", "2">>
sPerson42 == sPerson \o <<":">> \o s42

---------------------------------------------------------------------------
(* Collaborators: the attribute definition, the host classes. *)

\* self.custom_attribute: the CustomAttributeDefinition row, or None.
NoDef == [isNone |-> TRUE, definition_type |-> "", attribute_type |-> <<>>,
          multi_choice_options |-> <<>>]
Def(dt, at, opts) == [isNone |-> FALSE, definition_type |-> dt,
                      attribute_type |-> at, multi_choice_options |-> opts]

\* The attributable (host) classes and their instances.
HostClasses == {"Control", "Program"}
Hosts == {Obj("Control", 1), Obj("Control", 2), Obj("Program", 1)}
Persons == {Obj("Person", 1), Obj("Person", 2)}

\* obj._inflector.table_singular: the singular table name of a host class.
table_singular(c) ==
  CASE c = "Control" -> "control"
    [] c = "Program" -> "program"
    [] OTHER -> "none_type"

---------------------------------------------------------------------------
(* The value object. *)

\* The name '{0}_custom_attributable'.format(self.attributable_type).
attributable_attr(self) == <<self.attributable_type, "_custom_attributable">>

\* The relationships the application declares on the class: one per host
\* class and one per mapped class.  An unset relationship reads as None.
DeclaredAttrs ==
  {<<c, "_custom_attributable">> : c \in HostClasses} \cup {<<"attribute_">> \o sPerson}

\* A freshly constructed CustomAttributeValue().
BlankValue ==
  [custom_attribute |-> NoDef,
   attributable_id |-> NoneId,
   attributable_type |-> "None",
   attribute_value |-> NoneStr,
   attribute_object_id |-> NoneId,
   attrs |-> [n \in DeclaredAttrs |-> NoneObj]]

\* setattr(self, name, value)
SetAttr(self, name, value) ==
  [self EXCEPT !.attrs = [n \in (DOMAIN self.attrs) \cup {name} |->
                            IF n = name THEN value ELSE self.attrs[n]]]

\* hasattr(self, name)
HasAttr(self, name) == name \in DOMAIN self.attrs

\* The attributable setter with the relationship name computed before the
\* columns are written (a mutant).
Mut_SetAttributableBody(self, value) ==
  LET s1 == [self EXCEPT
               !.attributable_id = IF value # NoneObj THEN IntId(value.id) ELSE NoneId,
               !.attributable_type = IF value # NoneObj THEN value.cls ELSE "None"]
  IN SetAttr(s1, attributable_attr(self), value)

\* The attributable setter.
SetAttributableBody(self, value) ==
  LET s1 == [self EXCEPT
               !.attributable_id = IF value # NoneObj THEN IntId(value.id) ELSE NoneId,
               !.attributable_type = IF value # NoneObj THEN value.cls ELSE "None"]
  IN SetAttr(s1, attributable_attr(s1), value)

\* The attributable getter: the object, or AttributeError.
attributable(self) ==
  IF HasAttr(self, attributable_attr(self))
  THEN [err |-> "ok", obj |-> self.attrs[attributable_attr(self)]]
  ELSE [err |-> "AttributeError", obj |-> NoneObj]

\* self._attribute_object_attr: a name, None, or AttributeError when there
\* is no definition.
_attribute_object_attr(self) ==
  IF self.custom_attribute.isNone
  THEN [err |-> "AttributeError", isNone |-> TRUE, name |-> <<>>]
  ELSE IF ~StartsWith(self.custom_attribute.attribute_type, sMapPrefix)
  THEN [err |-> "ok", isNone |-> TRUE, name |-> <<>>]
  ELSE [err |-> "ok", isNone |-> FALSE,
        name |-> <<"attribute_">> \o Format(self.attribute_value)]

\* The attribute_object setter with None clearing the reference (a mutant).
Mut_SetAttributeObjectBody(self, value) ==
  IF value = NoneObj
  THEN [err |-> "ok", self |-> [self EXCEPT !.attribute_object_id = NoneId]]
  ELSE LET s1 == [self EXCEPT !.attribute_object_id = IntId(value.id)]
           a == _attribute_object_attr(s1)
       IN IF a.err # "ok" THEN [err |-> a.err, self |-> s1]
          ELSE IF a.isNone THEN [err |-> "TypeError", self |-> s1]
          ELSE [err |-> "ok", self |-> SetAttr(s1, a.name, value)]

\* The attribute_object setter: the outcome and the object as it is left.
SetAttributeObjectBody(self, value) ==
  IF value = NoneObj THEN [err |-> "ok", self |-> self]
  ELSE LET s1 == [self EXCEPT !.attribute_object_id = IntId(value.id)]
           a == _attribute_object_attr(s1)
       IN IF a.err # "ok" THEN [err |-> a.err, self |-> s1]
          ELSE IF a.isNone THEN [err |-> "TypeError", self |-> s1]
          ELSE [err |-> "ok", self |-> SetAttr(s1, a.name, value)]

---------------------------------------------------------------------------
(* Validation. *)

\* _validate_map_person splitting at the last colon only, as
\* rsplit(":", 1) would (a mutant).
Mut_validate_map_person(self) ==
  IF self.attribute_value.isNone THEN [err |-> "TypeError", self |-> self]
  ELSE IF Contains(self.attribute_value.str, ":")
  THEN LET s == self.attribute_value.str
           i == CHOOSE k \in 1..Len(s) :
                  s[k] = ":" /\ \A j \in (k + 1)..Len(s) : s[j] # ":"
       IN [err |-> "ok",
           self |-> [self EXCEPT !.attribute_value = Some(SubSeq(s, 1, i - 1)),
                                 !.attribute_object_id = StrId(SubSeq(s, i + 1, Len(s)))]]
  ELSE [err |-> "ok", self |-> self]

\* _validate_map_person
_validate_map_person(self) ==
  IF self.attribute_value.isNone THEN [err |-> "TypeError", self |-> self]
  ELSE IF Contains(self.attribute_value.str, ":")
  THEN LET parts == Split(self.attribute_value.str, ":")
       IN IF Len(parts) # 2 THEN [err |-> "ValueError", self |-> self]
          ELSE [err |-> "ok",
                self |-> [self EXCEPT !.attribute_value = Some(parts[1]),
                                      !.attribute_object_id = StrId(parts[2])]]
  ELSE [err |-> "ok", self |-> self]

\* _validate_dropdown without the test that the value is non-empty (a
\* mutant).
Mut_validate_dropdown(self) ==
  LET valid_options == Split(self.custom_attribute.multi_choice_options, ",")
  IN IF self.attribute_value.isNone
        \/ ~InList(self.attribute_value.str, valid_options)
     THEN [err |-> "ValueError", self |-> self]
     ELSE [err |-> "ok", self |-> self]

\* _validate_dropdown
_validate_dropdown(self) ==
  LET valid_options == Split(self.custom_attribute.multi_choice_options, ",")
  IN IF Truthy(self.attribute_value)
        /\ ~InList(self.attribute_value.str, valid_options)
     THEN [err |-> "ValueError", self |-> self]
     ELSE [err |-> "ok", self |-> self]

\* _validator_map.get(attribute_type): the validator's name, or "None".
_validator_map(attribute_type) ==
  CASE attribute_type = sDropdown -> "_validate_dropdown"
    [] attribute_type = sMapPerson -> "_validate_map_person"
    [] OTHER -> "None"

\* validate() without the check of the definition's host type (a mutant).
Mut_validate(self) ==
  LET host == attributable(self)
  IN IF host.err # "ok" \/ host.obj = NoneObj
     THEN [err |-> "AttributeError", self |-> self]
     ELSE IF self.custom_attribute.isNone
     THEN [err |-> "ValueError", self |-> self]
     ELSE LET validator == _validator_map(self.custom_attribute.attribute_type)
          IN CASE validator = "_validate_dropdown" -> _validate_dropdown(self)
               [] validator = "_validate_map_person" -> _validate_map_person(self)
               [] OTHER -> [err |-> "ok", self |-> self]

\* validate(): the outcome and the object as it is left.
validate(self) ==
  LET host == attributable(self)
  IN IF host.err # "ok" \/ host.obj = NoneObj
     THEN [err |-> "AttributeError", self |-> self]
     ELSE IF self.custom_attribute.isNone
     THEN [err |-> "ValueError", self |-> self]
     ELSE IF self.custom_attribute.definition_type # table_singular(host.obj.cls)
     THEN [err |-> "ValueError", self |-> self]
     ELSE LET validator == _validator_map(self.custom_attribute.attribute_type)
          IN CASE validator = "_validate_dropdown" -> _validate_dropdown(self)
               [] validator = "_validate_map_person" -> _validate_map_person(self)
               [] OTHER -> [err |-> "ok", self |-> self]

---------------------------------------------------------------------------
(* Operations on the value object. *)

\* A row of custom_attribute_values; id is the primary key.
Row(id, ca, aid, atype, value, oid) ==
  [id |-> id, custom_attribute_id |-> ca, attributable_id |-> aid,
   attributable_type |-> atype, attribute_value |-> value, attribute_object_id |-> oid]

NoRow == Row(0, NoneId, NoneId, "None", NoneStr, NoneId)

\* No query has been made yet.
NoQuery == [obj_class |-> "None", custom_attribute_id |-> 0,
            predicate |-> [op |-> "eq", arg |-> <<>>]]

\* The record of the last call on the table: none yet.
NoCall == [op |-> "init", ok |-> TRUE, row |-> NoRow, src |-> NoRow, obj |-> NoneId,
           query |-> NoQuery, matched |-> {}]

\* self.attribute_value = s
SetAttributeValue(s) ==
  /\ cav' = [cav EXCEPT !.attribute_value = s]
  /\ last' = [op |-> "set_attribute_value", arg |-> NoneObj, err |-> "ok"]
  /\ UNCHANGED <<stored, call>>

\* self.attributable = value
SetAttributable(value) ==
  /\ cav' = SetAttributableBody(cav, value)
  /\ last' = [op |-> "set_attributable", arg |-> value, err |-> "ok"]
  /\ UNCHANGED <<stored, call>>

\* self.attribute_object = value
SetAttributeObject(value) ==
  LET r == SetAttributeObjectBody(cav, value)
  IN /\ cav' = r.self
     /\ last' = [op |-> "set_attribute_object", arg |-> value, err |-> r.err]
     /\ UNCHANGED <<stored, call>>

\* self.validate()
Validate ==
  LET r == validate(cav)
  IN /\ cav' = r.self
     /\ last' = [op |-> "validate", arg |-> NoneObj, err |-> r.err]
     /\ UNCHANGED <<stored, call>>

---------------------------------------------------------------------------
(* The specification of validation: a value constructed with any           *)
(* definition and host, then assigned values and validated, repeatedly.    *)

\* The values assigned to attribute_value.
Values == {NoneStr} \cup {Some(s) : s \in StringsUpTo(MaxLen)} \cup {Some(sPerson42)}

\* The definitions a value may point at.
Definitions ==
  {Def(dt, at, <<>>) : dt \in {"control", "program"}, at \in {sText, sMapPerson}}
  \cup {Def(dt, sDropdown, o) : dt \in {"control", "program"}, o \in StringsUpTo(MaxLen)}

InitValidate ==
  /\ \E d \in Definitions \cup {NoDef}, h \in {NoneObj, Obj("Control", 1)} :
       cav = IF h = NoneObj
             THEN [BlankValue EXCEPT !.custom_attribute = d]
             ELSE SetAttributableBody([BlankValue EXCEPT !.custom_attribute = d], h)
  /\ last = [op |-> "init", arg |-> NoneObj, err |-> "ok"]
  /\ stored = {}
  /\ call = NoCall

NextValidate ==
  \/ \E s \in Values : SetAttributeValue(s)
  \/ Validate

SpecValidate == InitValidate /\ [][NextValidate]_vars

---------------------------------------------------------------------------
(* Properties of validate(). *)

\* The value is attached to a host object that resolves.
HostResolves(self) ==
  /\ self.attributable_type \in HostClasses
  /\ HasAttr(self, <<self.attributable_type, "_custom_attributable">>)
  /\ self.attrs[<<self.attributable_type, "_custom_attributable">>] # NoneObj

\* The class of the host object the value is attached to.
HostClass(self) == self.attrs[<<self.attributable_type, "_custom_attributable">>].cls

\* The definition exists and is declared for the host's type.
DefinitionMatches(self) ==
  /\ HostResolves(self)
  /\ ~self.custom_attribute.isNone
  /\ self.custom_attribute.definition_type = table_singular(HostClass(self))

\* v is one of the options of the comma-separated list opts: v holds no
\* comma and stands in opts between two commas or ends of the string.
IsOption(v, opts) ==
  /\ \A i \in 1..Len(v) : v[i] # ","
  /\ \E i \in 1..(Len(opts) + 1) :
       /\ i + Len(v) - 1 <= Len(opts)
       /\ SubSeq(opts, i, i + Len(v) - 1) = v
       /\ (i = 1 \/ opts[i - 1] = ",")
       /\ (i + Len(v) - 1 = Len(opts) \/ opts[i + Len(v)] = ",")

\* attribute_value is empty: None or "".
IsEmpty(v) == v.isNone \/ v.str = <<>>

\* C1: for a value whose definition exists, matches the host's type and is a
\* Dropdown, validate() returns without error exactly when attribute_value
\* is empty or is one of the comma-separated options, and otherwise fails
\* with a ValueError.
C1_DropdownValidIff ==
  [][(/\ last'.op = "validate"
      /\ DefinitionMatches(cav)
      /\ cav.custom_attribute.attribute_type = sDropdown)
     => IF \/ IsEmpty(cav.attribute_value)
           \/ IsOption(cav.attribute_value.str, cav.custom_attribute.multi_choice_options)
        THEN last'.err = "ok"
        ELSE last'.err = "ValueError"]_vars

\* A non-empty value picked from a list of several options has validated.
C1_Witness ==
  /\ last.op = "validate"
  /\ last.err = "ok"
  /\ DefinitionMatches(cav)
  /\ cav.attributable_type = "Control"
  /\ cav.custom_attribute = Def("control", sDropdown, <<":", ",", "a">>)
  /\ cav.attribute_value = Some(<<"a">>)
  /\ cav.attribute_object_id = NoneId

\* C2: for a Map:Person definition that matches the host, validating the
\* combined value "Person:42" leaves attribute_value = "Person" and
\* attribute_object_id = the integer 42.
C2_PersonShorthandSplit ==
  [][(/\ last'.op = "validate"
      /\ DefinitionMatches(cav)
      /\ cav.custom_attribute.attribute_type = sMapPerson
      /\ cav.attribute_value = Some(sPerson42))
     => (/\ last'.err = "ok"
         /\ cav'.attribute_value = Some(sPerson)
         /\ cav'.attribute_object_id = IntId(42))]_vars

\* C7 as stated: validate() succeeds only with an existing definition that
\* matches the host's type; with a missing definition, or one declared for
\* another host type, it fails with a ValueError and changes no field.
C7_Original ==
  [][(last'.op = "validate")
     => (/\ last'.err = "ok" => DefinitionMatches(cav)
         /\ (\/ cav.custom_attribute.isNone
             \/ (HostResolves(cav) /\ ~DefinitionMatches(cav)))
            => (last'.err = "ValueError" /\ cav' = cav))]_vars

\* C7 as amended: validate() succeeds only with a resolving host and an
\* existing definition that matches the host's type; for a value whose host
\* resolves, a missing definition or one declared for another host type
\* makes it fail with a ValueError and change no field.  (With no resolving
\* host it fails with an AttributeError before the definition is looked at.)
C7_DefinitionChecked ==
  [][(last'.op = "validate")
     => (/\ last'.err = "ok" => DefinitionMatches(cav)
         /\ (HostResolves(cav) /\ ~DefinitionMatches(cav))
            => (last'.err = "ValueError" /\ cav' = cav)
         /\ ~HostResolves(cav)
            => (last'.err = "AttributeError" /\ cav' = cav))]_vars

\* A value with a host and a definition declared for another type has been
\* refused, although its value would pass the type-specific validator.
C7_Witness ==
  /\ last.op = "validate"
  /\ last.err = "ValueError"
  /\ HostResolves(cav)
  /\ HostClass(cav) = "Control"
  /\ cav.custom_attribute = Def("program", sMapPerson, <<>>)
  /\ cav.attribute_value = Some(sPerson42)
  /\ cav.attribute_object_id = NoneId

\* C10: validate() is idempotent: after a successful validate(), a second
\* one succeeds too and changes nothing; and a successful validate() under
\* a definition type other than Map:Person changes no field at all.
C10_ValidateIdempotent ==
  /\ []((last.op = "validate" /\ last.err = "ok")
        => (validate(cav).err = "ok" /\ validate(cav).self = cav))
  /\ [][(/\ last'.op = "validate"
         /\ last'.err = "ok"
         /\ cav.custom_attribute.attribute_type # sMapPerson)
        => cav' = cav]_vars

\* A "value:id" shorthand has been split by a successful validate().
C10_Witness ==
  /\ last.op = "validate"
  /\ last.err = "ok"
  /\ cav.attributable_type = "Control"
  /\ cav.custom_attribute = Def("control", sMapPerson, <<>>)
  /\ cav.attribute_value = Some(<<"a">>)
  /\ cav.attribute_object_id = StrId(<<"a">>)

---------------------------------------------------------------------------
(* The specification of attachment: a value constructed with some          *)
(* definition and value, then attached to hosts and to mapped objects      *)
(* through the two property setters, repeatedly.                           *)

InitAttach ==
  /\ \E d \in {NoDef, Def("control", sText, <<>>), Def("control", sMapPerson, <<>>)},
        v \in {NoneStr, Some(sPerson), Some(<<"a">>)} :
       cav = [BlankValue EXCEPT !.custom_attribute = d, !.attribute_value = v]
  /\ last = [op |-> "init", arg |-> NoneObj, err |-> "ok"]
  /\ stored = {}
  /\ call = NoCall

NextAttach ==
  \/ \E o \in Hosts \cup {NoneObj} : SetAttributable(o)
  \/ \E o \in Persons \cup {NoneObj} : SetAttributeObject(o)

SpecAttach == InitAttach /\ [][NextAttach]_vars

\* C8: assigning an object to `attributable` writes its id and its class
\* name to attributable_id and attributable_type and stores it under the
\* relationship "<attributable_type>_custom_attributable", so that reading
\* `attributable` returns it; assigning None clears both columns.
C8_AttributableSetter ==
  [][(last'.op = "set_attributable")
     => (/\ IF last'.arg # NoneObj
            THEN /\ cav'.attributable_id = IntId(last'.arg.id)
                 /\ cav'.attributable_type = last'.arg.cls
                 /\ <<last'.arg.cls, "_custom_attributable">> \in DOMAIN cav'.attrs
                 /\ cav'.attrs[<<last'.arg.cls, "_custom_attributable">>] = last'.arg
            ELSE /\ cav'.attributable_id = NoneId
                 /\ cav'.attributable_type = "None"
         /\ attributable(cav') = [err |-> "ok", obj |-> last'.arg])]_vars

\* A value attached to a Control has been re-attached to a Program.
C8_Witness ==
  /\ last.op = "set_attributable"
  /\ last.arg = Obj("Program", 1)
  /\ cav.attrs[<<"Control", "_custom_attributable">>] = Obj("Control", 2)
  /\ attributable(cav).obj = Obj("Program", 1)
  /\ DOMAIN cav.attrs = DeclaredAttrs
  /\ cav.custom_attribute = NoDef
  /\ cav.attribute_value = NoneStr
  /\ cav.attribute_object_id = NoneId

\* C9: assigning None to `attribute_object` changes nothing (no column, no
\* relationship), so a reference once set stays; assigning an object writes
\* its id to attribute_object_id.
C9_AttributeObjectSetter ==
  [][(last'.op = "set_attribute_object")
     => IF last'.arg = NoneObj
        THEN cav' = cav /\ last'.err = "ok"
        ELSE cav'.attribute_object_id = IntId(last'.arg.id)]_vars

\* None has been assigned to a value whose reference was set: it is kept.
C9_Witness ==
  /\ last.op = "set_attribute_object"
  /\ last.arg = NoneObj
  /\ cav.attribute_object_id = IntId(2)
  /\ cav.attrs[<<"attribute_">> \o sPerson] = Obj("Person", 2)
  /\ cav.custom_attribute = Def("control", sMapPerson, <<>>)
  /\ cav.attribute_value = Some(sPerson)
  /\ cav.attributable_type = "None"
  /\ DOMAIN cav.attrs = DeclaredAttrs

---------------------------------------------------------------------------
(* The database: the definitions, the model registry and its tables, and   *)
(* the custom_attribute_values table.                                      *)

\* The custom_attribute_definitions table, by id: a text attribute, two
\* mapped attributes, and one whose mapped type names no model class.
DefTable ==
  (1 :> Def("control", sText, <<>>)) @@ (2 :> Def("control", sMapPerson, <<>>))
  @@ (3 :> Def("control", sMapControl, <<>>)) @@ (4 :> Def("control", sMapGhost, <<>>))

\* CustomAttributeDefinition.query.filter_by(id=custom_attribute_id).first()
QueryDefinition(custom_attribute_id) ==
  IF custom_attribute_id \in DOMAIN DefTable THEN DefTable[custom_attribute_id] ELSE NoDef

\* getattr(all_models, map_type, None): the model class of that name.
all_models(map_type) ==
  CASE map_type = sPerson -> [isNone |-> FALSE, name |-> "Person"]
    [] map_type = sControl -> [isNone |-> FALSE, name |-> "Control"]
    [] OTHER -> [isNone |-> TRUE, name |-> "NoneType"]

\* The columns a model class has among those the filter looks at.
Columns(class) ==
  CASE class = "Person" -> {"email"}
    [] class = "Control" -> {"title", "slug"}
    [] class = "Program" -> {"title", "slug"}
    [] OTHER -> {}

\* The rows of a model class's table; a column the class lacks reads None.
Table(class) ==
  CASE class = "Person" ->
         {[id |-> 1, email |-> Some(<<"a">>), title |-> NoneStr, slug |-> NoneStr]}
    [] class = "Control" ->
         {[id |-> 1, email |-> NoneStr, title |-> Some(<<"b">>), slug |-> Some(<<"a">>)],
          [id |-> 2, email |-> NoneStr, title |-> Some(<<"b">>), slug |-> Some(<<"b">>)]}
    [] class = "Program" ->
         {[id |-> 1, email |-> NoneStr, title |-> Some(<<"a">>), slug |-> Some(<<"a">>)],
          [id |-> 2, email |-> NoneStr, title |-> Some(<<"b">>), slug |-> Some(<<"a">>)]}
    [] OTHER -> {}

\* SQL equality of two nullable integers: never true of a NULL.
SqlEq(x, y) == x.kind = "int" /\ y.kind = "int" /\ x.n = y.n

\* A unique constraint that also covers attributable_type (a mutant).
Mut_UniqueViolation(row, table) ==
  \E r \in table :
    /\ SqlEq(r.attributable_id, row.attributable_id)
    /\ SqlEq(r.custom_attribute_id, row.custom_attribute_id)
    /\ r.attributable_type = row.attributable_type

\* UniqueConstraint('attributable_id', 'custom_attribute_id'): the insert of
\* row is refused when a stored row has the same pair.  As in SQL, a pair
\* with a NULL in it equals no pair.
UniqueViolation(row, table) ==
  \E r \in table :
    /\ SqlEq(r.attributable_id, row.attributable_id)
    /\ SqlEq(r.custom_attribute_id, row.custom_attribute_id)

\* db.session.add(value); db.session.flush(): the outcome and the table.
Insert(row, table) ==
  IF UniqueViolation(row, table)
  THEN [ok |-> FALSE, table |-> table]
  ELSE [ok |-> TRUE, table |-> table \cup {row}]

\* The primary key the next inserted row gets.
NextId(table) == Cardinality(table) + 1

\* _clone() that does not copy attribute_object_id (a mutant).
Mut_clone(self, obj, id) ==
  Row(id, self.custom_attribute_id, obj.id, self.attributable_type,
      self.attribute_value, NoneId)

\* _clone(self, obj): the record that is built, added and flushed.
_clone(self, obj, id) ==
  Row(id, self.custom_attribute_id, obj.id, self.attributable_type,
      self.attribute_value, self.attribute_object_id)

\* A predicate over a string column, as the query builder passes it:
\* column == arg.  It is not true of a NULL.
Satisfies(predicate, column) ==
  ~column.isNone /\ predicate.op = "eq" /\ column.str = predicate.arg

\* fields: the columns among email, title, slug that map_class has.
MapFields(map_class) ==
  SelectSeq(<<"email", "title", "slug">>, LAMBDA name : name \in Columns(map_class))

\* and_ in place of or_ (a mutant).
Mut_OrFields(predicate, fields, m) ==
  \A i \in 1..Len(fields) : Satisfies(predicate, m[fields[i]])

\* or_(*[predicate(f) for f in fields]) on the row m
OrFields(predicate, fields, m) ==
  \E i \in 1..Len(fields) : Satisfies(predicate, m[fields[i]])

\* filter_by_mapping(predicate), for the host row with id host_id
filter_by_mapping(obj_class, custom_attribute_id, map_class, fields, predicate, host_id) ==
  \E r \in stored :
    /\ SqlEq(r.custom_attribute_id, IntId(custom_attribute_id))
    /\ r.attributable_type = obj_class
    /\ SqlEq(r.attributable_id, IntId(host_id))
    /\ \E m \in Table(map_class) :
         /\ SqlEq(IntId(m.id), r.attribute_object_id)
         /\ OrFields(predicate, fields, m)

\* filter_by_custom without the test of attributable_type (a mutant).
Mut_filter_by_custom(obj_class, custom_attribute_id, predicate, host_id) ==
  \E r \in stored :
    /\ SqlEq(r.custom_attribute_id, IntId(custom_attribute_id))
    /\ SqlEq(r.attributable_id, IntId(host_id))
    /\ Satisfies(predicate, r.attribute_value)

\* filter_by_custom(predicate), for the host row with id host_id
filter_by_custom(obj_class, custom_attribute_id, predicate, host_id) ==
  \E r \in stored :
    /\ SqlEq(r.custom_attribute_id, IntId(custom_attribute_id))
    /\ r.attributable_type = obj_class
    /\ SqlEq(r.attributable_id, IntId(host_id))
    /\ Satisfies(predicate, r.attribute_value)

\* mk_filter_by_custom(obj_class, custom_attribute_id): the closure that is
\* returned, with what it closes over.
mk_filter_by_custom(obj_class, custom_attribute_id) ==
  LET attr_def == QueryDefinition(custom_attribute_id)
      map_class == all_models(SubSeq(attr_def.attribute_type, 5, Len(attr_def.attribute_type)))
  IN IF ~attr_def.isNone /\ StartsWith(attr_def.attribute_type, sMapPrefix)
        /\ ~map_class.isNone
     THEN [closure |-> "filter_by_mapping", map_class |-> map_class.name,
           fields |-> MapFields(map_class.name)]
     ELSE [closure |-> "filter_by_custom", map_class |-> "NoneType", fields |-> <<>>]

\* The filter applied to a predicate and evaluated for one host row.
FilterMatches(obj_class, custom_attribute_id, predicate, host_id) ==
  LET f == mk_filter_by_custom(obj_class, custom_attribute_id)
  IN IF f.closure = "filter_by_mapping"
     THEN filter_by_mapping(obj_class, custom_attribute_id, f.map_class, f.fields,
                            predicate, host_id)
     ELSE filter_by_custom(obj_class, custom_attribute_id, predicate, host_id)

---------------------------------------------------------------------------
(* Operations on the table. *)

\* A value is created and flushed.
Create(ca, aid, atype, value, oid) ==
  LET row == Row(NextId(stored), ca, aid, atype, value, oid)
      r == Insert(row, stored)
  IN /\ Cardinality(stored) < MaxStored
     /\ stored' = r.table
     /\ call' = [op |-> "create", ok |-> r.ok, row |-> row, src |-> NoRow,
                 obj |-> NoneId, query |-> NoQuery, matched |-> {}]
     /\ UNCHANGED <<cav, last>>

\* self._clone(obj) of a stored value self.
Clone(self, obj) ==
  LET row == _clone(self, obj, NextId(stored))
      r == Insert(row, stored)
  IN /\ Cardinality(stored) < MaxStored
     /\ stored' = r.table
     /\ call' = [op |-> "clone", ok |-> r.ok, row |-> row, src |-> self,
                 obj |-> obj.id, query |-> NoQuery, matched |-> {}]
     /\ UNCHANGED <<cav, last>>

\* Query(obj_class).filter(mk_filter_by_custom(obj_class, id)(predicate)):
\* the ids of the host rows the filter lets through.
Filter(obj_class, custom_attribute_id, predicate) ==
  /\ call' = [op |-> "filter", ok |-> TRUE, row |-> NoRow, src |-> NoRow, obj |-> NoneId,
              query |-> [obj_class |-> obj_class,
                         custom_attribute_id |-> custom_attribute_id,
                         predicate |-> predicate],
              matched |-> {h \in Table(obj_class) :
                             FilterMatches(obj_class, custom_attribute_id, predicate, h.id)}]
  /\ UNCHANGED <<cav, last, stored>>

---------------------------------------------------------------------------
(* The specification of the table: values are created and cloned onto      *)
(* hosts, repeatedly.                                                      *)

\* The column values of the rows that are created.
StoreDefIds == {NoneId, IntId(1), IntId(2)}
StoreHostIds == {NoneId, IntId(1)}
StoreValues == {Some(<<"a">>), Some(<<"b">>)}
StoreObjectIds == {NoneId, IntId(1)}

\* The hosts a value is cloned onto: two saved ones and an unsaved one,
\* whose id is still None.
CloneTargets ==
  {[cls |-> "Control", id |-> IntId(1)], [cls |-> "Program", id |-> IntId(2)],
   [cls |-> "Control", id |-> NoneId]}

InitStore ==
  /\ cav = BlankValue
  /\ last = [op |-> "init", arg |-> NoneObj, err |-> "ok"]
  /\ stored = {}
  /\ call = NoCall

NextStore ==
  \/ \E ca \in StoreDefIds, aid \in StoreHostIds, atype \in HostClasses,
        value \in StoreValues, oid \in StoreObjectIds :
       Create(ca, aid, atype, value, oid)
  \/ \E self \in stored, obj \in CloneTargets : Clone(self, obj)

SpecStore == InitStore /\ [][NextStore]_vars

---------------------------------------------------------------------------
(* The specification of the search: values of Controls are created, under  *)
(* every definition, and hosts of either class are searched by them.       *)

\* The values that are created: a plain value, and a value with a reference.
SearchedValues == {<<Some(<<"a">>), NoneId>>, <<Some(<<"b">>), IntId(1)>>}

\* The predicates and definition ids that are searched for; no definition
\* has the last id.
Predicates == {[op |-> "eq", arg |-> s] : s \in {<<"a">>, <<"b">>, <<"c">>}}
QueryDefIds == (DOMAIN DefTable) \cup {5}

NextFilter ==
  \/ \E d \in DOMAIN DefTable, h \in Table("Control"), v \in SearchedValues :
       Create(IntId(d), IntId(h.id), "Control", v[1], v[2])
  \/ \E c \in HostClasses, d \in QueryDefIds, p \in Predicates : Filter(c, d, p)

SpecFilter == InitStore /\ [][NextFilter]_vars

---------------------------------------------------------------------------
(* Properties of the table. *)

\* The pair the unique constraint is declared on.
Pair(r) == <<r.attributable_id, r.custom_attribute_id>>

\* Neither column of the pair is NULL.
PairNotNull(r) == r.attributable_id.kind # "none" /\ r.custom_attribute_id.kind # "none"

\* A stored row already has the pair of row.
PairTaken(row) == \E r \in stored : Pair(r) = Pair(row)

\* C3 as stated: the table never holds two values with the same
\* (attributable_id, custom_attribute_id) pair.
C3_Original ==
  \A r1 \in stored, r2 \in stored : r1 # r2 => Pair(r1) # Pair(r2)

\* C3 as amended: the table never holds two values with the same pair of
\* non-NULL attributable_id and custom_attribute_id; an insert, direct or
\* through _clone(), of a value whose non-NULL pair a stored value has fails
\* and leaves the table as it was, and every other insert adds the value.
C3_UniquePair ==
  /\ [](\A r1 \in stored, r2 \in stored :
          (r1 # r2 /\ PairNotNull(r1)) => Pair(r1) # Pair(r2))
  /\ [][(call'.op \in {"create", "clone"})
        => IF PairNotNull(call'.row) /\ PairTaken(call'.row)
           THEN ~call'.ok /\ stored' = stored
           ELSE call'.ok /\ stored' = stored \cup {call'.row}]_vars

\* A clone onto a host that has a value of the definition has been refused.
C3_Witness ==
  /\ call.op = "clone"
  /\ ~call.ok
  /\ stored = {Row(1, IntId(1), IntId(1), "Program", Some(<<"a">>), NoneId)}
  /\ call.src \in stored
  /\ call.obj = IntId(1)

\* C4 as stated: for every value v and host obj, v._clone(obj) adds and
\* returns a record with v's custom_attribute_id, attributable_type,
\* attribute_value and attribute_object_id and with obj.id as
\* attributable_id, and leaves v as it was.
C4_Original ==
  [][(call'.op = "clone")
     => (/\ call'.ok
         /\ call'.row.custom_attribute_id = call'.src.custom_attribute_id
         /\ call'.row.attributable_type = call'.src.attributable_type
         /\ call'.row.attribute_value = call'.src.attribute_value
         /\ call'.row.attribute_object_id = call'.src.attribute_object_id
         /\ call'.row.attributable_id = call'.obj
         /\ call'.row \in stored'
         /\ call'.src \in stored')]_vars

\* C4 as amended: v._clone(obj) fails with a constraint violation, storing
\* nothing, exactly when a stored value already has the non-NULL pair
\* (obj.id, v.custom_attribute_id); otherwise it adds and returns a new
\* record with v's custom_attribute_id, attributable_type, attribute_value
\* and attribute_object_id and with obj.id as attributable_id.  Either way v
\* and every other stored value are left as they were.
C4_ClonePreserves ==
  [][(call'.op = "clone")
     => (/\ call'.ok <=>
              ~\E r \in stored :
                 /\ r.attributable_id = call'.obj
                 /\ r.custom_attribute_id = call'.src.custom_attribute_id
                 /\ PairNotNull(r)
         /\ call'.ok
            => (/\ call'.row.custom_attribute_id = call'.src.custom_attribute_id
                /\ call'.row.attributable_type = call'.src.attributable_type
                /\ call'.row.attribute_value = call'.src.attribute_value
                /\ call'.row.attribute_object_id = call'.src.attribute_object_id
                /\ call'.row.attributable_id = call'.obj
                /\ call'.row \notin stored
                /\ stored' = stored \cup {call'.row})
         /\ ~call'.ok => stored' = stored
         /\ call'.src \in stored')]_vars

\* A value with a reference has been cloned from one host onto another.
C4_Witness ==
  /\ call.op = "clone"
  /\ call.ok
  /\ call.src = Row(1, IntId(2), IntId(1), "Control", Some(<<"b">>), IntId(1))
  /\ call.row = Row(2, IntId(2), IntId(2), "Control", Some(<<"b">>), IntId(1))
  /\ stored = {call.src, call.row}

---------------------------------------------------------------------------
(* Properties of the search. *)

\* The definition with this id is a reference type: "Map:"-prefixed.
IsReferenceType(d) ==
  d \in DOMAIN DefTable /\ SubSeq(DefTable[d].attribute_type, 1, 4) = <<"M", "a", "p", ":">>

\* The name of the type a reference-type definition maps to.
MappedType(d) == SubSeq(DefTable[d].attribute_type, 5, Len(DefTable[d].attribute_type))

\* The table of the type named, empty when no model class has the name.
MappedTable(type) ==
  IF type = sPerson THEN Table("Person")
  ELSE IF type = sControl THEN Table("Control")
  ELSE {}

\* The stored values of definition d that belong to host h of class c.
ValuesOf(c, d, h) ==
  {r \in stored : /\ r.custom_attribute_id = IntId(d)
                  /\ r.attributable_type = c
                  /\ r.attributable_id = IntId(h)}

\* The hosts of class c that have a value of definition d whose referenced
\* row of the mapped type has an email, title or slug satisfying p.
HostsByReference(c, d, p) ==
  {h \in Table(c) :
     \E r \in ValuesOf(c, d, h.id), m \in MappedTable(MappedType(d)) :
       /\ r.attribute_object_id = IntId(m.id)
       /\ \/ Satisfies(p, m.email)
          \/ Satisfies(p, m.title)
          \/ Satisfies(p, m.slug)}

\* The hosts of class c that have a value of definition d whose
\* attribute_value satisfies p.
HostsByValue(c, d, p) ==
  {h \in Table(c) :
     \E r \in ValuesOf(c, d, h.id) : Satisfies(p, r.attribute_value)}

\* C5 as stated: for a "Map:"-prefixed definition the filter matches
\* exactly the hosts with a stored value of that definition, class and host
\* id whose referenced row of the mapped type has an email, title or slug
\* satisfying the predicate.
C5_Original ==
  (call.op = "filter" /\ IsReferenceType(call.query.custom_attribute_id))
  => call.matched = HostsByReference(call.query.obj_class,
                                     call.query.custom_attribute_id,
                                     call.query.predicate)

\* C5 as amended: the same, for a "Map:"-prefixed definition whose mapped
\* type names a model class; when it names none, the filter matches by
\* attribute_value, as for a definition that is not a reference.
C5_ReferenceFilter ==
  (call.op = "filter" /\ IsReferenceType(call.query.custom_attribute_id))
  => IF MappedType(call.query.custom_attribute_id) \in {sPerson, sControl}
     THEN call.matched = HostsByReference(call.query.obj_class,
                                          call.query.custom_attribute_id,
                                          call.query.predicate)
     ELSE call.matched = HostsByValue(call.query.obj_class,
                                      call.query.custom_attribute_id,
                                      call.query.predicate)

\* A host has been found by the slug of the Control its value refers to,
\* neither the Control's title nor the value itself satisfying the
\* predicate, while a host whose value satisfies the predicate but refers
\* to nothing was not found.
C5_Witness ==
  /\ call.op = "filter"
  /\ call.query.custom_attribute_id = 3
  /\ call.query.obj_class = "Control"
  /\ call.query.predicate.arg = <<"a">>
  /\ call.matched = {h \in Table("Control") : h.id = 2}
  /\ stored = {Row(1, IntId(3), IntId(2), "Control", Some(<<"b">>), IntId(1)),
               Row(2, IntId(3), IntId(1), "Control", Some(<<"a">>), NoneId)}

\* C6: for a definition that is not a reference the filter matches exactly
\* the hosts of the class with a stored value of that definition, class and
\* host id whose attribute_value satisfies the predicate.
C6_ValueFilter ==
  (/\ call.op = "filter"
   /\ call.query.custom_attribute_id \in DOMAIN DefTable
   /\ ~IsReferenceType(call.query.custom_attribute_id))
  => call.matched = HostsByValue(call.query.obj_class,
                                 call.query.custom_attribute_id,
                                 call.query.predicate)

\* One of two hosts with a value of the text definition has been found.
C6_Witness ==
  /\ call.op = "filter"
  /\ call.query.custom_attribute_id = 1
  /\ call.query.obj_class = "Control"
  /\ call.query.predicate.arg = <<"a">>
  /\ call.matched = {h \in Table("Control") : h.id = 1}
  /\ stored = {Row(1, IntId(1), IntId(1), "Control", Some(<<"a">>), NoneId),
               Row(2, IntId(1), IntId(2), "Control", Some(<<"b">>), IntId(1))}

====
